---- MODULE Spec2Model ----
(***************************************************************************)
(* Model of the tarball installer's bookkeeping (src/src/main_window.py):  *)
(* the InstallationTracker registry, the marker files on disk, and the     *)
(* install / uninstall flows of MainWindow that drive them.                *)
(*                                                                         *)
(* Python dicts are functions from a set of string keys; a key that is    *)
(* absent is absent from the DOMAIN, and dict.get(k, default) is dict_get. *)
(* Paths are sequences of components relative to the home directory.       *)
(***************************************************************************)
EXTENDS Integers, Sequences, FiniteSets, TLC

VARIABLES
    installations,  \* InstallationTracker.installations: list of record dicts
    db_file,        \* the registry file installations.json on disk
    markers,        \* directory -> the marker file it holds (absent/corrupt/json)
    files,          \* installed paths present on disk (launchers, app directories)
    edits,          \* number of marker edits made outside the program so far
    last,           \* the operation performed by the last step, with its inputs
                    \* and result, and (prev) the operation of the step before
    apps_list,      \* MainWindow.apps_list: the app_id of each item shown
    selected,       \* index of the selected item of apps_list, 0 for none
    current_file,   \* MainWindow.current_file
    temp_analysis_dir, \* MainWindow.temp_analysis_dir (0 is None)
    tmp_dirs,       \* temporary directory -> the extracted archive it holds
    install_btn,    \* whether the Install button is enabled
    installer_thread, \* MainWindow.installer_thread and its progress
    uninstall_thread, \* MainWindow.uninstall_thread and its progress
    installs,         \* installations started so far
    visible           \* whether the main window is open

tracker_vars == <<installations, db_file>>
disk_vars == <<markers, files, tmp_dirs>>
install_vars == <<current_file, temp_analysis_dir, install_btn, installer_thread, installs, visible>>
manage_vars == <<apps_list, selected, uninstall_thread>>
gui_vars == <<apps_list, selected, current_file, temp_analysis_dir, tmp_dirs,
              install_btn, installer_thread, uninstall_thread, installs, visible>>

vars == <<installations, db_file, markers, files, edits, last, gui_vars>>

---------------------------------------------------------------------------
(* Bounds of the exploration *)

MaxDiskEdits == 2

MaxInstalls == 2

\* candidates handed to identify_main_binary, and desktop files of a package
MaxCandidates == 2

MaxDesktopFiles == 2

\* lines of a desktop file
MaxLines == 3

\* files of an extracted package
MaxFiles == 2

---------------------------------------------------------------------------
(* Values *)

\* Python's None (also the value of dict.get for an absent key)
None == "<None>"

\* __version__
installer_version == "0.23.6"

\* tarballs the user can pick, by path
Tarballs == {"/dl/a.tar.gz", "/dl/b.tar.gz"}

\* hashlib.md5(path).hexdigest()[:12], prefixed: distinct paths, distinct ids
app_id_of(tarball_path) ==
    CASE tarball_path = "/dl/a.tar.gz" -> "tarball_installer_a"
      [] tarball_path = "/dl/b.tar.gz" -> "tarball_installer_b"

\* os.path.basename(tarball_path)
basename_of(tarball_path) ==
    CASE tarball_path = "/dl/a.tar.gz" -> "a.tar.gz"
      [] tarball_path = "/dl/b.tar.gz" -> "b.tar.gz"

AppIds == {app_id_of(t) : t \in Tarballs}

\* the directories InstallationTracker.scan_existing_installations walks
scan_paths ==
    << <<".local", "bin">>,
       <<".local", "share", "applications">>,
       <<".local", "share", "icons">>,
       <<"Applications">>,
       <<"bin">> >>

\* directories (below home) in which the model lets a marker file live
MarkerDirs ==
    { <<"Applications", "app">>, <<"Applications", "tool">>, <<"Documents">> }

IsPrefix(p, q) == Len(p) <= Len(q) /\ SubSeq(q, 1, Len(p)) = p

\* scan_path.rglob(marker name): the marker directories below one scan path
UnderScanPath(i) == {d \in MarkerDirs : IsPrefix(scan_paths[i], d)}

Scanned == UNION {UnderScanPath(i) : i \in 1..Len(scan_paths)}

---------------------------------------------------------------------------
(* dict helpers *)

EmptyDict == [k \in {} |-> None]

dict_get(d, k, default) == IF k \in DOMAIN d THEN d[k] ELSE default

\* d.update(e)
dict_update(d, e) ==
    [k \in (DOMAIN d) \cup (DOMAIN e) |-> IF k \in DOMAIN e THEN e[k] ELSE d[k]]

\* inst.get('app_id')
IdOf(inst) == dict_get(inst, "app_id", None)

---------------------------------------------------------------------------
(* Marker files *)

Absent == [st |-> "absent"]
Corrupt == [st |-> "corrupt"]          \* unreadable, or not a JSON object
Json(data) == [st |-> "json", data |-> data]

\* marker contents a user (or another tool) may leave on disk: unreadable,
\* carrying the app_id of a tarball, or carrying no app_id
UserMarkers ==
    { Corrupt,
      Json([app_id |-> app_id_of("/dl/a.tar.gz"), app_name |-> "M",
            app_version |-> "9.9", install_type |-> "system"]),
      Json([app_name |-> "M"]) }

\* json.load(marker) succeeded and gave a dict
Readable(m) == m.st = "json"

\* marker_data.get('app_id')
MarkerId(m) == dict_get(m.data, "app_id", None)

---------------------------------------------------------------------------
(* InstallationTracker *)

save_installations_empty(insts) == [st |-> "ok", content |-> <<>>]

\* save_installations: json.dump of the whole list
save_installations(insts) == [st |-> "ok", content |-> insts]

\* index of the first record with this app_id, 0 when there is none
FirstIndex(insts, app_id) ==
    IF \E i \in 1..Len(insts) : IdOf(insts[i]) = app_id
    THEN CHOOSE i \in 1..Len(insts) :
            /\ IdOf(insts[i]) = app_id
            /\ \A j \in 1..(i - 1) : IdOf(insts[j]) # app_id
    ELSE 0

add_installation_append(insts, data) == Append(insts, data)

\* add_installation: update the first record with the same app_id, else append
add_installation(insts, data) ==
    LET i == FirstIndex(insts, IdOf(data))
    IN  IF i # 0
        THEN [insts EXCEPT ![i] = dict_update(insts[i], data)]
        ELSE Append(insts, data)

remove_installation_inverted(insts, app_id) ==
    SelectSeq(insts, LAMBDA inst : IdOf(inst) = app_id)

\* remove_installation: keep the records whose app_id differs
remove_installation(insts, app_id) ==
    SelectSeq(insts, LAMBDA inst : IdOf(inst) # app_id)

\* get_installation_by_id: the first record with this app_id, or None
get_installation_by_id(insts, app_id) ==
    LET i == FirstIndex(insts, app_id)
    IN  IF i # 0 THEN insts[i] ELSE EmptyDict

already_tracked_first(insts, app_id) ==
    Len(insts) > 0 /\ IdOf(insts[1]) = app_id

\* any(inst.get('app_id') == app_id for inst in self.installations)
already_tracked(insts, app_id) ==
    \E i \in 1..Len(insts) : IdOf(insts[i]) = app_id

\* the record scan_existing_installations builds from one marker
discovered_record_unflagged(dir, m) ==
    [app_id |-> MarkerId(m),
     app_name |-> dict_get(m.data, "app_name", "Unknown"),
     app_version |-> dict_get(m.data, "app_version", "1.0"),
     install_time |-> dict_get(m.data, "install_time", 0),
     install_type |-> dict_get(m.data, "install_type", "user"),
     source_filename |-> dict_get(m.data, "tarball_source", ""),
     marker_file |-> dir,
     installed_files |-> <<>>,
     installer_version |-> dict_get(m.data, "installer_version", installer_version)]

discovered_record_name(dir, m) ==
    [app_id |-> MarkerId(m),
     app_name |-> dict_get(m.data, "name", "Unknown"),
     app_version |-> dict_get(m.data, "app_version", "1.0"),
     install_time |-> dict_get(m.data, "install_time", 0),
     install_type |-> dict_get(m.data, "install_type", "user"),
     source_filename |-> dict_get(m.data, "tarball_source", ""),
     discovered |-> TRUE,
     marker_file |-> dir,
     installed_files |-> <<>>,
     installer_version |-> dict_get(m.data, "installer_version", installer_version)]

\* the record the scan makes of a marker file
discovered_record(dir, m) ==
    [app_id |-> MarkerId(m),
     app_name |-> dict_get(m.data, "app_name", "Unknown"),
     app_version |-> dict_get(m.data, "app_version", "1.0"),
     install_time |-> dict_get(m.data, "install_time", 0),
     install_type |-> dict_get(m.data, "install_type", "user"),
     source_filename |-> dict_get(m.data, "tarball_source", ""),
     discovered |-> TRUE,
     marker_file |-> dir,
     installed_files |-> <<>>,
     installer_version |-> dict_get(m.data, "installer_version", installer_version)]

scan_marker_always(insts, dir, m) ==
    IF Readable(m) THEN Append(insts, discovered_record(dir, m)) ELSE insts

scan_marker_upsert(insts, dir, m) ==
    IF Readable(m) THEN add_installation(insts, discovered_record(dir, m))
    ELSE insts

\* the body of the scan loop for one marker file that exists
scan_marker(insts, dir, m) ==
    IF Readable(m) /\ ~already_tracked(insts, MarkerId(m))
    THEN Append(insts, discovered_record(dir, m))
    ELSE insts

RECURSIVE scan_loop_aborting(_, _, _)
scan_loop_aborting(insts, disk, order) ==
    IF order = <<>> THEN insts
    ELSE IF disk[Head(order)].st = "corrupt" THEN insts
    ELSE scan_loop_aborting(IF disk[Head(order)].st = "absent" THEN insts
                            ELSE scan_marker(insts, Head(order), disk[Head(order)]),
                            disk, Tail(order))

\* the scan loop over the marker files in the order the walk yields them
RECURSIVE scan_loop(_, _, _)
scan_loop(insts, disk, order) ==
    IF order = <<>> THEN insts
    ELSE scan_loop(IF disk[Head(order)].st = "absent" THEN insts
                   ELSE scan_marker(insts, Head(order), disk[Head(order)]),
                   disk, Tail(order))

\* all orders in which a set of directories can be listed
RECURSIVE Perms(_)
Perms(S) ==
    IF S = {} THEN {<<>>}
    ELSE UNION {{<<d>> \o p : p \in Perms(S \ {d})} : d \in S}

\* walk orders of the scan: scan_paths in list order, rglob order within each
RECURSIVE WalkOrders(_)
WalkOrders(i) ==
    IF i > Len(scan_paths) THEN {<<>>}
    ELSE {p \o rest : p \in Perms(UnderScanPath(i)), rest \in WalkOrders(i + 1)}

ScanOrders == WalkOrders(1)

orphaned_all(insts, m) == Readable(m)

\* cleanup_orphaned_markers, first loop: is this existing marker an orphan
orphaned(insts, m) == Readable(m) /\ ~already_tracked(insts, MarkerId(m))

\* orphaned_markers: the markers the first loop of cleanup_orphaned_markers
\* collects (a list in the code; only its length and its members are used)
orphaned_markers(insts, disk) ==
    {d \in MarkerDirs : disk[d].st # "absent" /\ orphaned(insts, disk[d])}

cleanup_return_seen(insts, disk, failing) ==
    << Cardinality({d \in MarkerDirs : disk[d].st # "absent"}),
       Cardinality(orphaned_markers(insts, disk) \ failing) >>

\* the pair cleanup_orphaned_markers returns; unlink fails on `failing`
cleanup_return(insts, disk, failing) ==
    << Cardinality(orphaned_markers(insts, disk)),
       Cardinality(orphaned_markers(insts, disk) \ failing) >>

\* the disk after the second loop of cleanup_orphaned_markers
cleanup_disk(insts, disk, failing) ==
    [d \in MarkerDirs |->
        IF d \in orphaned_markers(insts, disk) \ failing
        THEN Absent ELSE disk[d]]

---------------------------------------------------------------------------
(* Records handed to add_installation by a caller of the registry *)

AddInputs ==
    { [app_id |-> app_id_of("/dl/a.tar.gz"), app_name |-> "A",
       install_type |-> "user", installed_files |-> <<>>, marker_files |-> <<>>],
      [app_id |-> app_id_of("/dl/a.tar.gz"), app_name |-> "B",
       install_type |-> "user", installed_files |-> <<>>, marker_files |-> <<>>],
      [app_id |-> app_id_of("/dl/b.tar.gz"), app_name |-> "B",
       install_type |-> "user", installed_files |-> <<>>, marker_files |-> <<>>] }

---------------------------------------------------------------------------
(* The registry used as an object: any sequence of its operations *)

Key(op) == <<op.op, dict_get(op, "app_id", None)>>

\* record the step, and with it which operation the step before it was
Did(op) == last' = dict_update(op, [prev |-> Key(last)])

\* InstallationTracker.__init__ on a home without registry file or markers
Init ==
    /\ installations = <<>>
    /\ db_file = [st |-> "missing"]
    /\ markers = [d \in MarkerDirs |-> Absent]
    /\ files = {}
    /\ edits = 0
    /\ last = [op |-> "init", prev |-> <<"init", None>>]
    /\ apps_list = <<>>
    /\ selected = 0
    /\ current_file = None
    /\ temp_analysis_dir = 0
    /\ tmp_dirs = EmptyDict
    /\ install_btn = FALSE
    /\ installer_thread = [st |-> "none"]
    /\ uninstall_thread = [st |-> "none"]
    /\ installs = 0
    /\ visible = TRUE

AddInstallation ==
    \E data \in AddInputs :
        /\ installations' = add_installation(installations, data)
        /\ db_file' = save_installations(installations')
        /\ Did([op |-> "add", app_id |-> IdOf(data), data |-> data])
        /\ UNCHANGED <<markers, files, edits, gui_vars>>

RemoveInstallation ==
    \E app_id \in AppIds \cup {None} :
        /\ installations' = remove_installation(installations, app_id)
        /\ db_file' = save_installations(installations')
        /\ Did([op |-> "remove", app_id |-> app_id])
        /\ UNCHANGED <<markers, files, edits, gui_vars>>

ScanExistingInstallations ==
    \E order \in ScanOrders :
        /\ installations' = scan_loop(installations, markers, order)
        /\ db_file' = IF installations' # <<>>
                      THEN save_installations(installations') ELSE db_file
        /\ Did([op |-> "scan"])
        /\ UNCHANGED <<markers, files, edits, gui_vars>>

CleanupOrphanedMarkers ==
    \E failing \in SUBSET orphaned_markers(installations, markers) :
        /\ markers' = cleanup_disk(installations, markers, failing)
        /\ Did([op |-> "cleanup",
                ret |-> cleanup_return(installations, markers, failing),
                failing |-> failing])
        /\ UNCHANGED <<installations, db_file, files, edits, gui_vars>>

\* somebody outside the program writes or replaces a marker file
UserWritesMarker ==
    \E d \in MarkerDirs, m \in UserMarkers :
        /\ edits < MaxDiskEdits
        /\ edits' = edits + 1
        /\ markers' = [markers EXCEPT ![d] = m]
        /\ Did([op |-> "disk"])
        /\ UNCHANGED <<installations, db_file, files, gui_vars>>

\* somebody outside the program deletes a marker file
UserDeletesMarker ==
    \E d \in MarkerDirs :
        /\ edits < MaxDiskEdits
        /\ markers[d].st # "absent"
        /\ edits' = edits + 1
        /\ markers' = [markers EXCEPT ![d] = Absent]
        /\ Did([op |-> "disk"])
        /\ UNCHANGED <<installations, db_file, files, gui_vars>>

Next ==
    \/ AddInstallation
    \/ RemoveInstallation
    \/ ScanExistingInstallations
    \/ CleanupOrphanedMarkers
    \/ UserWritesMarker
    \/ UserDeletesMarker

Spec == Init /\ [][Next]_vars

---------------------------------------------------------------------------
(* The registry constructed on a home that earlier runs have left behind *)

\* what json.load gives for a registry file that holds a JSON object and no
\* array: a dict, here a function that is no sequence
JsonObject == [k \in {0} |-> "version"]

\* isinstance(v, list)
IsList(v) == DOMAIN v = 1..Cardinality(DOMAIN v)

\* the registry file as InstallationTracker.__init__ can find it: absent,
\* not decodable as JSON, an array of records, or JSON that is no array
RegistryFiles ==
    { [st |-> "missing"],
      [st |-> "corrupt"],
      [st |-> "ok", content |-> <<>>],
      [st |-> "ok", content |-> <<CHOOSE data \in AddInputs : data.app_name = "A">>],
      [st |-> "ok", content |-> JsonObject] }

\* load_installations: json.load of the file, [] when the file is missing
\* or json.load raises
load_installations(file) ==
    IF file.st = "ok" THEN file.content ELSE <<>>

\* the marker files found at start-up: none, or one somewhere
StartupDisks ==
    {disk \in [MarkerDirs -> {Absent} \cup UserMarkers] :
        Cardinality({d \in MarkerDirs : disk[d] # Absent}) <= 1}

\* scan_existing_installations on what was loaded: on a dict every marker
\* read ends in the except clause (a key of the dict has no get), and
\* nothing is appended
startup_scan(loaded, disk, order) ==
    IF IsList(loaded) THEN scan_loop(loaded, disk, order) ELSE loaded

\* bool(self.installations)
Truthy(insts) == DOMAIN insts # {}

\* InstallationTracker.__init__: load, then scan, which saves what is not
\* empty
InitStartup ==
    /\ \E file \in RegistryFiles, disk \in StartupDisks, order \in ScanOrders :
          /\ markers = disk
          /\ installations = startup_scan(load_installations(file), disk, order)
          /\ db_file = IF Truthy(installations)
                       THEN save_installations(installations) ELSE file
          /\ last = [op |-> "startup", prev |-> <<"init", None>>,
                     file |-> file, loaded |-> load_installations(file)]
    /\ files = {}
    /\ edits = 0
    /\ apps_list = <<>>
    /\ selected = 0
    /\ current_file = None
    /\ temp_analysis_dir = 0
    /\ tmp_dirs = EmptyDict
    /\ install_btn = FALSE
    /\ installer_thread = [st |-> "none"]
    /\ uninstall_thread = [st |-> "none"]
    /\ installs = 0
    /\ visible = TRUE

\* add_installation and remove_installation on a registry that holds a dict:
\* the loop over it calls get on a key and raises AttributeError before
\* anything is assigned or saved
CallRaises ==
    \E op \in {"add", "remove"} :
        /\ ~IsList(installations)
        /\ Did([op |-> op, raised |-> TRUE])
        /\ UNCHANGED <<installations, db_file, markers, files, edits, gui_vars>>

\* the operations of the registry after its construction (on a dict, scan
\* and cleanup run through without changing anything)
NextStartup ==
    \/ IsList(installations) /\ AddInstallation
    \/ IsList(installations) /\ RemoveInstallation
    \/ IsList(installations) /\ ScanExistingInstallations
    \/ IsList(installations) /\ CleanupOrphanedMarkers
    \/ CallRaises

SpecStartup == InitStartup /\ [][NextStartup]_vars

---------------------------------------------------------------------------
(* The application: MainWindow handlers and the two worker threads *)

\* what extracting a tarball can yield: one top-level directory holding one
\* executable named after it, with or without a desktop file; two tarballs
\* may unpack to a directory of the same name
ArchiveContents(tarball_path) ==
    CASE tarball_path = "/dl/a.tar.gz" ->
            { [topdir |-> "app", desktop |-> TRUE] }
      [] tarball_path = "/dl/b.tar.gz" ->
            { [topdir |-> "app", desktop |-> FALSE],
              [topdir |-> "tool", desktop |-> FALSE] }
      [] OTHER -> {}

\* install_to_user, no desktop file: the name made from the tarball's file name
derived_name(tarball_path) ==
    CASE tarball_path = "/dl/a.tar.gz" -> "A"
      [] tarball_path = "/dl/b.tar.gz" -> "B"

\* install_to_user: app_info (name, version) of the package
app_info(tarball_path, content) ==
    IF content.desktop
    THEN [name |-> "App", version |-> "2.0"]
    ELSE [name |-> derived_name(tarball_path), version |-> "1.0"]

\* permanent_install_dir = ~/Applications/<basename of the extraction root>
permanent_install_dir(content) == <<"Applications", content.topdir>>

\* the launcher and desktop entry install_to_user writes, in order
installed_files(content) ==
    << <<".local", "bin", content.topdir>> >>
    \o (IF content.desktop
        THEN << <<".local", "share", "applications", content.topdir>> >>
        ELSE <<>>)

Range(s) == {s[i] : i \in 1..Len(s)}

\* the paths install_to_user writes: the copy of the package, holding the
\* marker, the launcher and the desktop entry
install_to_user(content) ==
    {permanent_install_dir(content)} \cup Range(installed_files(content))

install_system_wide_usr(content) ==
    {<<"/usr", "local", "bin", content.topdir>>}

\* install_system_wide: logs that it is not implemented and calls
\* install_to_user
install_system_wide(content) == install_to_user(content)

\* the branch of run on options['install_type']
run_install(th, content) ==
    IF th.install_type = "user" THEN install_to_user(content)
    ELSE install_system_wide(content)

\* create_marker_file: the marker written into the install directory, with
\* a timestamp of its own
marker_data(th, content, now) ==
    [installed_by |-> "Tarball Installer",
     installer_version |-> installer_version,
     app_id |-> app_id_of(th.tarball_path),
     app_name |-> app_info(th.tarball_path, content).name,
     app_version |-> app_info(th.tarball_path, content).version,
     install_time |-> now,
     install_type |-> th.install_type,
     tarball_source |-> basename_of(th.tarball_path)]

\* InstallerThread.run on success: installation_data after update(install_data)
installation_data(th, content) ==
    [app_id |-> app_id_of(th.tarball_path),
     source_filename |-> basename_of(th.tarball_path),
     install_time |-> th.install_time,
     install_type |-> th.install_type,
     installer_version |-> installer_version,
     app_name |-> app_info(th.tarball_path, content).name,
     app_version |-> app_info(th.tarball_path, content).version,
     app_install_dir |-> permanent_install_dir(content),
     installed_files |-> installed_files(content),
     marker_files |-> << permanent_install_dir(content) >>]

\* load_tracked_installations: one item per record, carrying its app_id
load_tracked_installations(insts) == [i \in 1..Len(insts) |-> IdOf(insts[i])]

\* the list is cleared and rebuilt, which drops the selection
ReloadList ==
    /\ apps_list' = load_tracked_installations(installations')
    /\ selected' = 0

\* cleanup_temp_dirs: the temporary directories left once it has run
cleanup_temp_dirs(dirs, dir) == [d \in (DOMAIN dirs) \ {dir} |-> dirs[d]]

\* the least positive number outside S
Fresh(S) ==
    CHOOSE n \in 1..(Cardinality(S) + 1) :
        n \notin S /\ \A m \in 1..(n - 1) : m \in S

\* the temporary directories the program refers to
TmpRefs(dir, th) ==
    {dir, dict_get(th, "extracted_dir", 0), dict_get(th, "temp_dir", 0)}

\* tempfile.mkdtemp: a directory name that no directory has and nothing
\* refers to (names are only compared, so the least such name is taken)
mkdtemp(dirs, refs) == Fresh((DOMAIN dirs) \cup refs)

\* the temporary directories that are still referred to; one that nothing
\* refers to any more stays on disk for good and is left out of tmp_dirs
held(dirs, refs) == [d \in (DOMAIN dirs) \cap refs |-> dirs[d]]

\* datetime.now().isoformat(), read twice in an installation: when the
\* thread starts work (tick 0) and when it writes the marker (tick 1)
datetime_now(tick) == 2 * installs + tick

\* record a step of the application that reads or writes the registry or
\* the installed files; the other steps leave the record as it is (a scan
\* also records the app_id that the step before it removed from tracking)
DidApp(op) == last' = op

\* browse_file, a file having been chosen in the dialog
BrowseFile ==
    \E t \in Tarballs :
        /\ current_file' = t
        /\ install_btn' = TRUE
        /\ UNCHANGED last
        /\ UNCHANGED <<tracker_vars, disk_vars, edits, manage_vars,
                       temp_analysis_dir, installer_thread, installs, visible>>

\* analyze_package: drop the previous extraction, extract into a fresh
\* temporary directory; a failed extraction is cleaned up again
AnalyzePackage ==
    \E content \in ArchiveContents(current_file), ok \in BOOLEAN :
        /\ current_file # None
        /\ LET cleaned == cleanup_temp_dirs(tmp_dirs, temp_analysis_dir)
               dir == mkdtemp(cleaned, TmpRefs(0, installer_thread))
           IN  /\ temp_analysis_dir' = IF ok THEN dir ELSE 0
               /\ tmp_dirs' =
                    IF ok
                    THEN [d \in (DOMAIN cleaned) \cup {dir} |->
                            IF d = dir THEN content ELSE cleaned[d]]
                    ELSE cleaned
        /\ UNCHANGED last
        /\ UNCHANGED <<tracker_vars, markers, files, edits, manage_vars,
                       current_file, install_btn, installer_thread, installs, visible>>

\* select_binary_manually, the question answered with Yes: drop the previous
\* extraction and extract into a fresh temporary directory for the file
\* dialog; a failed extraction is cleaned up again
SelectBinaryManually ==
    \E content \in ArchiveContents(current_file), ok \in BOOLEAN :
        /\ current_file # None
        /\ LET cleaned == cleanup_temp_dirs(tmp_dirs, temp_analysis_dir)
               dir == mkdtemp(cleaned, TmpRefs(0, installer_thread))
           IN  /\ temp_analysis_dir' = IF ok THEN dir ELSE 0
               /\ tmp_dirs' =
                    IF ok
                    THEN [d \in (DOMAIN cleaned) \cup {dir} |->
                            IF d = dir THEN content ELSE cleaned[d]]
                    ELSE cleaned
        /\ UNCHANGED last
        /\ UNCHANGED <<tracker_vars, markers, files, edits, manage_vars,
                       current_file, install_btn, installer_thread, installs, visible>>

\* closeEvent: the extraction is removed and the window closes, which ends
\* the event loop
CloseEvent ==
    /\ visible
    /\ visible' = FALSE
    /\ tmp_dirs' = cleanup_temp_dirs(tmp_dirs, temp_analysis_dir)
    /\ temp_analysis_dir' = 0
    /\ UNCHANGED last
    /\ UNCHANGED <<tracker_vars, markers, files, edits, manage_vars,
                   current_file, install_btn, installer_thread, installs>>

\* the install types the user picks with the radio buttons (user_radio is
\* checked when the window opens)
InstallTypes == {"user", "system"}

\* a start that does not ask for an extraction
StartInstallationUnanalysed(install_type) ==
    /\ install_btn
    /\ installer_thread.st = "none"
    /\ IF current_file = None
       THEN UNCHANGED <<install_btn, installer_thread, installs>>
       ELSE /\ installs < MaxInstalls
            /\ installs' = installs + 1
            /\ install_btn' = FALSE
            /\ installer_thread' =
                 [st |-> "started", tarball_path |-> current_file,
                  install_type |-> install_type,
                  extracted_dir |-> temp_analysis_dir]
    /\ UNCHANGED last
    /\ UNCHANGED <<tracker_vars, disk_vars, edits, manage_vars,
                   current_file, temp_analysis_dir, visible>>

\* start_installation, reached by a click on the enabled Install button
\* with the given radio button checked; the thread object, once its
\* finished signal is handled or it is terminated, counts as no thread
StartInstallationAs(install_type) ==
    /\ install_btn
    /\ installer_thread.st = "none"
    /\ IF current_file = None \/ temp_analysis_dir = 0
       THEN UNCHANGED <<install_btn, installer_thread, installs>>
       ELSE /\ installs < MaxInstalls
            /\ installs' = installs + 1
            /\ install_btn' = FALSE
            /\ installer_thread' =
                 [st |-> "started", tarball_path |-> current_file,
                  install_type |-> install_type,
                  extracted_dir |-> temp_analysis_dir]
    /\ UNCHANGED last
    /\ UNCHANGED <<tracker_vars, disk_vars, edits, manage_vars,
                   current_file, temp_analysis_dir, visible>>

StartInstallation ==
    \E install_type \in InstallTypes : StartInstallationAs(install_type)

\* InstallerThread.run, first part: the installation data is set up and the
\* extraction directory is taken over, or the tarball extracted afresh when
\* that directory is gone
InstallerBegin ==
    /\ installer_thread.st = "started"
    /\ IF installer_thread.extracted_dir \in DOMAIN tmp_dirs
       THEN /\ installer_thread' =
                 dict_update(installer_thread,
                    [st |-> "installing", install_time |-> datetime_now(0),
                     temp_dir |-> installer_thread.extracted_dir])
            /\ UNCHANGED tmp_dirs
       ELSE \E content \in ArchiveContents(installer_thread.tarball_path) :
            LET dir == mkdtemp(tmp_dirs, TmpRefs(temp_analysis_dir, installer_thread))
            IN  /\ tmp_dirs' = [d \in (DOMAIN tmp_dirs) \cup {dir} |->
                                  IF d = dir THEN content ELSE tmp_dirs[d]]
                /\ installer_thread' =
                     dict_update(installer_thread,
                        [st |-> "installing", install_time |-> datetime_now(0),
                         temp_dir |-> dir])
    /\ UNCHANGED last
    /\ UNCHANGED <<tracker_vars, markers, files, edits, manage_vars,
                   current_file, temp_analysis_dir, install_btn, installs, visible>>

\* InstallerThread.run, second part: install_to_user copies the package to
\* ~/Applications (replacing what is there), writes the marker, the
\* launcher and the desktop entry, and emits finished; with the extraction
\* directory gone it raises instead and emits finished(False, ...)
InstallerInstall ==
    /\ installer_thread.st = "installing"
    /\ IF installer_thread.temp_dir \in DOMAIN tmp_dirs
       THEN LET content == tmp_dirs[installer_thread.temp_dir]
                dir == permanent_install_dir(content)
            IN  /\ markers' = [markers EXCEPT
                        ![dir] = Json(marker_data(installer_thread, content,
                                                  datetime_now(1)))]
                /\ files' = files \cup run_install(installer_thread, content)
                /\ installer_thread' =
                     dict_update(installer_thread,
                        [st |-> "emitted", success |-> TRUE,
                         install_data |-> installation_data(installer_thread, content)])
                /\ DidApp([op |-> "installer_install", success |-> TRUE,
                        app_id |-> app_id_of(installer_thread.tarball_path)])
       ELSE /\ installer_thread' =
                 dict_update(installer_thread,
                    [st |-> "emitted", success |-> FALSE, install_data |-> EmptyDict])
            /\ DidApp([op |-> "installer_install", success |-> FALSE,
                    app_id |-> app_id_of(installer_thread.tarball_path)])
            /\ UNCHANGED <<markers, files>>
    /\ UNCHANGED <<tracker_vars, tmp_dirs, edits, manage_vars,
                   current_file, temp_analysis_dir, install_btn, installs, visible>>

\* a slot that tracks the package whatever the thread reports
InstallationFinishedUnconditional ==
    /\ installer_thread.st = "emitted"
    /\ installations' =
         add_installation(installations,
            IF installer_thread.success THEN installer_thread.install_data
            ELSE [app_id |-> app_id_of(installer_thread.tarball_path)])
    /\ db_file' = save_installations(installations')
    /\ ReloadList
    /\ tmp_dirs' = held(cleanup_temp_dirs(tmp_dirs, temp_analysis_dir), {})
    /\ temp_analysis_dir' = 0
    /\ install_btn' = TRUE
    /\ installer_thread' = [st |-> "none"]
    /\ DidApp([op |-> "installation_finished", success |-> installer_thread.success,
            app_id |-> app_id_of(installer_thread.tarball_path)])
    /\ UNCHANGED <<markers, files, edits, uninstall_thread, current_file, installs, visible>>

\* installation_finished, the slot of the thread's finished signal
InstallationFinished ==
    /\ installer_thread.st = "emitted"
    /\ IF installer_thread.success
       THEN /\ installations' =
                 add_installation(installations, installer_thread.install_data)
            /\ db_file' = save_installations(installations')
            /\ ReloadList
       ELSE UNCHANGED <<tracker_vars, apps_list, selected>>
    /\ tmp_dirs' = held(cleanup_temp_dirs(tmp_dirs, temp_analysis_dir), {})
    /\ temp_analysis_dir' = 0
    /\ install_btn' = TRUE
    /\ installer_thread' = [st |-> "none"]
    /\ DidApp([op |-> "installation_finished", success |-> installer_thread.success,
            app_id |-> app_id_of(installer_thread.tarball_path)])
    /\ UNCHANGED <<markers, files, edits, uninstall_thread, current_file, installs, visible>>

\* cancel_installation: the running thread is terminated
CancelInstallation ==
    /\ installer_thread.st \in {"started", "installing"}
    /\ installer_thread' = [st |-> "none"]
    /\ install_btn' = TRUE
    /\ tmp_dirs' = held(tmp_dirs, {temp_analysis_dir})
    /\ UNCHANGED last
    /\ UNCHANGED <<tracker_vars, markers, files, edits, manage_vars,
                   current_file, temp_analysis_dir, installs, visible>>

\* scan_installations
ScanInstallations ==
    \E order \in ScanOrders :
        /\ installations' = scan_loop(installations, markers, order)
        /\ db_file' = IF installations' # <<>>
                      THEN save_installations(installations') ELSE db_file
        /\ ReloadList
        /\ DidApp([op |-> "scan",
                untracked |-> IF last.op = "remove_from_tracking"
                              THEN last.app_id ELSE None])
        /\ UNCHANGED <<disk_vars, edits, install_vars, uninstall_thread>>

\* cleanup_markers
CleanupMarkers ==
    \E failing \in SUBSET orphaned_markers(installations, markers) :
        /\ markers' = cleanup_disk(installations, markers, failing)
        /\ DidApp([op |-> "cleanup",
                ret |-> cleanup_return(installations, markers, failing),
                failing |-> failing])
        /\ UNCHANGED <<tracker_vars, files, tmp_dirs, edits,
                       install_vars, manage_vars>>

\* refresh_apps_list
RefreshAppsList ==
    /\ apps_list' = load_tracked_installations(installations)
    /\ selected' = 0
    /\ UNCHANGED last
    /\ UNCHANGED <<tracker_vars, disk_vars, edits, install_vars, uninstall_thread>>

\* the user selects an item of the list
SelectApp ==
    \E i \in 1..Len(apps_list) :
        /\ selected # i
        /\ selected' = i
        /\ UNCHANGED last
        /\ UNCHANGED <<tracker_vars, disk_vars, edits, install_vars,
                       apps_list, uninstall_thread>>

\* uninstall_application, confirmed: the thread gets the selected record
UninstallApplication ==
    /\ selected # 0
    /\ uninstall_thread.st = "none"
    /\ already_tracked(installations, apps_list[selected])
    /\ uninstall_thread' =
         [st |-> "started",
          installation_data |->
              get_installation_by_id(installations, apps_list[selected])]
    /\ UNCHANGED last
    /\ UNCHANGED <<tracker_vars, disk_vars, edits, install_vars,
                   apps_list, selected>>

\* UninstallThread.run: removes the listed files and emits finished(True)
UninstallRun ==
    /\ uninstall_thread.st = "started"
    /\ files' = files \ Range(dict_get(uninstall_thread.installation_data,
                                        "installed_files", <<>>))
    /\ markers' = [d \in MarkerDirs |->
                     IF d \in Range(dict_get(uninstall_thread.installation_data,
                                             "marker_files", <<>>))
                     THEN Absent ELSE markers[d]]
    /\ uninstall_thread' = dict_update(uninstall_thread,
                                [st |-> "emitted", success |-> TRUE])
    /\ DidApp([op |-> "uninstall_run",
            app_id |-> IdOf(uninstall_thread.installation_data)])
    /\ UNCHANGED <<tracker_vars, tmp_dirs, edits, install_vars,
                   apps_list, selected>>

\* uninstallation_finished, the slot of the thread's finished signal: the
\* record of the item selected now is removed
UninstallationFinished ==
    /\ uninstall_thread.st = "emitted"
    /\ IF uninstall_thread.success /\ selected # 0
       THEN /\ installations' =
                 remove_installation(installations, apps_list[selected])
            /\ db_file' = save_installations(installations')
            /\ ReloadList
       ELSE UNCHANGED <<tracker_vars, apps_list, selected>>
    /\ uninstall_thread' = [st |-> "none"]
    /\ DidApp([op |-> "uninstallation_finished",
            success |-> uninstall_thread.success,
            app_id |-> IdOf(uninstall_thread.installation_data),
            removed |-> IF selected # 0 THEN <<apps_list[selected]>> ELSE <<>>])
    /\ UNCHANGED <<disk_vars, edits, install_vars>>

\* remove_from_tracking, confirmed
RemoveFromTracking ==
    /\ selected # 0
    /\ installations' = remove_installation(installations, apps_list[selected])
    /\ db_file' = save_installations(installations')
    /\ ReloadList
    /\ DidApp([op |-> "remove_from_tracking", app_id |-> apps_list[selected]])
    /\ UNCHANGED <<disk_vars, edits, install_vars, uninstall_thread>>

\* no installation is under way
InstallIdle == installer_thread.st = "none"

\* no uninstallation is under way
UninstallIdle == uninstall_thread.st = "none"

\* the extraction at hand is one of the selected package
AnalysedSelected ==
    temp_analysis_dir \in DOMAIN tmp_dirs
        => tmp_dirs[temp_analysis_dir] \in ArchiveContents(current_file)

\* The application used by one user who does one thing at a time: the
\* Install tab is used while nothing is being uninstalled, the Manage tab
\* while nothing is being installed, and a package is installed from its
\* own analysis with the radio buttons left as they are.
NextApp ==
    \/ UninstallIdle /\ InstallIdle /\ BrowseFile
    \/ UninstallIdle /\ InstallIdle /\ AnalyzePackage
    \/ UninstallIdle /\ AnalysedSelected /\ StartInstallationAs("user")
    \/ InstallerBegin
    \/ InstallerInstall
    \/ InstallationFinished
    \/ UninstallIdle /\ CancelInstallation
    \/ InstallIdle /\ ScanInstallations
    \/ InstallIdle /\ CleanupMarkers
    \/ InstallIdle /\ RefreshAppsList
    \/ InstallIdle /\ SelectApp
    \/ InstallIdle /\ UninstallApplication
    \/ UninstallRun
    \/ UninstallationFinished
    \/ InstallIdle /\ RemoveFromTracking

SpecApp == Init /\ [][NextApp]_vars

\* The Install tab with either radio button checked, and the Scan button of
\* the Manage tab, which stays enabled while the installer thread runs and
\* while its finished signal waits to be handled.
NextInstall ==
    \/ InstallIdle /\ BrowseFile
    \/ InstallIdle /\ AnalyzePackage
    \/ AnalysedSelected /\ StartInstallation
    \/ InstallerBegin
    \/ InstallerInstall
    \/ InstallationFinished
    \/ CancelInstallation
    \/ ScanInstallations

SpecInstall == Init /\ [][NextInstall]_vars

\* The Install tab as the window offers it: Browse, Analyze Package and
\* Select Executable stay enabled while the installer thread runs, the
\* window can be closed at any time, and a slot runs only while the event
\* loop does. The thread runs on until the process is gone.
NextWindow ==
    \/ visible /\ BrowseFile
    \/ visible /\ AnalyzePackage
    \/ visible /\ SelectBinaryManually
    \/ visible /\ StartInstallation
    \/ InstallerBegin
    \/ InstallerInstall
    \/ visible /\ InstallationFinished
    \/ visible /\ CancelInstallation
    \/ CloseEvent

SpecWindow == Init /\ [][NextWindow]_vars

---------------------------------------------------------------------------
(* InstallerThread.identify_main_binary: strings are sequences of           *)
(* characters, a path is the string with its "/" separators                 *)

\* s1 + "/" + s2
Slash(s1, s2) == s1 \o <<"/">> \o s2

\* t in s
Contains(s, t) ==
    \E i \in 0..(Len(s) - Len(t)) : SubSeq(s, i + 1, i + Len(t)) = t

\* s.endswith(t)
EndsWith(s, t) ==
    Len(s) >= Len(t) /\ SubSeq(s, Len(s) - Len(t) + 1, Len(s)) = t

\* os.path.basename(path): what follows the last "/"
basename(path) ==
    LET cuts == {i \in 1..Len(path) : path[i] = "/"}
    IN  IF cuts = {} THEN path
        ELSE SubSeq(path, (CHOOSE i \in cuts : \A j \in cuts : j <= i) + 1, Len(path))

\* str.lower() on the letters that occur in the model's names
lower_char(c) ==
    CASE c = "R" -> "r"
      [] c = "B" -> "b"
      [] c = "M" -> "m"
      [] OTHER -> c

lower(s) == [i \in 1..Len(s) |-> lower_char(s[i])]

\* the characters str.split() splits at
IsSpace(c) == c \in {" ", "\t"}

\* s.split()[0]: the first run of characters that are not whitespace
split_first(s) ==
    LET starts == {i \in 1..Len(s) : ~IsSpace(s[i])}
        start == CHOOSE i \in starts : \A j \in starts : i <= j
        stops == {i \in start..Len(s) : IsSpace(s[i])} \cup {Len(s) + 1}
        stop == CHOOSE i \in stops : \A j \in stops : i <= j
    IN  SubSeq(s, start, stop - 1)

\* exec_cmd.split()[0] if ' ' in exec_cmd else exec_cmd, then its basename
exec_binary(exec_cmd) ==
    basename(IF Contains(exec_cmd, <<" ">>) THEN split_first(exec_cmd)
             ELSE exec_cmd)

\* parse_desktop_file(path).get('exec', ''): a desktop file is given by the
\* Exec value of its [Desktop Entry] section ("" when it has none or the
\* file cannot be read)
desktop_exec(desktop_file) == dict_get(desktop_file, "Exec", <<>>)

\* 'bin' in bin_path
bin_bonus(binary) ==
    IF Contains(lower(binary), <<"b", "i", "n">>) THEN 10 ELSE 0

ext_bonus_three(bin_name) ==
    IF ~Contains(bin_name, <<".">>) THEN 3
    ELSE IF \E e \in {<<".", "s", "h">>, <<".", "p", "y">>, <<".", "p", "l">>} :
                EndsWith(bin_name, e)
         THEN 3 ELSE 0

\* '.' not in bin_name: +8, elif it ends with .sh / .py / .pl: +3
ext_bonus(bin_name) ==
    IF ~Contains(bin_name, <<".">>) THEN 8
    ELSE IF \E e \in {<<".", "s", "h">>, <<".", "p", "y">>, <<".", "p", "l">>} :
                EndsWith(bin_name, e)
         THEN 3 ELSE 0

main_names ==
    << <<"a", "p", "p">>, <<"m", "a", "i", "n">>, <<"r", "u", "n">>,
       <<"s", "t", "a", "r", "t">>, <<"l", "a", "u", "n", "c", "h">> >>

name_bonus_stacking(bin_name) ==
    5 * Cardinality({i \in 1..Len(main_names) :
                        Contains(lower(bin_name), main_names[i])})

name_bonus_first_only(bin_name) ==
    IF Contains(lower(bin_name), main_names[1]) THEN 5 ELSE 0

\* the loop over main_names with its break: +5 once
name_bonus(bin_name) ==
    IF \E i \in 1..Len(main_names) : Contains(lower(bin_name), main_names[i])
    THEN 5 ELSE 0

\* 'uninstall' in name or 'remove' in name: -3
uninstall_penalty(bin_name) ==
    IF \/ Contains(lower(bin_name), <<"u", "n", "i", "n", "s", "t", "a", "l", "l">>)
       \/ Contains(lower(bin_name), <<"r", "e", "m", "o", "v", "e">>)
    THEN 3 ELSE 0

\* the score of one candidate
score(binary) ==
    bin_bonus(binary) + ext_bonus(basename(binary))
    + name_bonus(basename(binary)) - uninstall_penalty(basename(binary))

\* list.sort(key = score, reverse = True) is stable: insert each element
\* behind the elements that score at least as much
RECURSIVE insert_sorted(_, _)
insert_sorted(sorted, binary) ==
    IF sorted = <<>> THEN <<binary>>
    ELSE IF score(Head(sorted)) >= score(binary)
         THEN <<Head(sorted)>> \o insert_sorted(Tail(sorted), binary)
         ELSE <<binary>> \o sorted

RECURSIVE sort_by_score(_)
sort_by_score(binaries) ==
    IF binaries = <<>> THEN <<>>
    ELSE insert_sorted(sort_by_score(SubSeq(binaries, 1, Len(binaries) - 1)),
                       binaries[Len(binaries)])

\* what identify_main_binary returns: None, or a path
ReturnNone == [none |-> TRUE]
Return(value) == [none |-> FALSE, value |-> value]

top_scored_last_tie(binaries) ==
    LET sorted == sort_by_score(binaries)
        ties == {k \in 1..Len(sorted) : score(sorted[k]) = score(sorted[1])}
    IN  Return(sorted[CHOOSE k \in ties : \A j \in ties : j <= k])

top_scored_positive(binaries) ==
    IF score(sort_by_score(binaries)[1]) > 0
    THEN Return(sort_by_score(binaries)[1]) ELSE ReturnNone

\* scored_binaries[0][0] of a list that is not empty
top_scored(binaries) == Return(sort_by_score(binaries)[1])

\* the candidates whose basename is the one the first desktop file names
exec_matches(binaries, desktop_files) ==
    IF desktop_files = <<>> \/ desktop_exec(desktop_files[1]) = <<>> THEN {}
    ELSE {i \in 1..Len(binaries) :
            basename(binaries[i]) = exec_binary(desktop_exec(desktop_files[1]))}

desktop_match_token(binaries, desktop_files) ==
    Return(exec_binary(desktop_exec(desktop_files[1])))

\* the first candidate of exec_matches, which is not empty
desktop_match(binaries, desktop_files) ==
    Return(binaries[CHOOSE i \in exec_matches(binaries, desktop_files) :
                        \A j \in exec_matches(binaries, desktop_files) : i <= j])

\* scored_binaries after the sort, as it is logged: empty when the function
\* returned before the scoring loop
scored_binaries(binaries, desktop_files) ==
    IF binaries = <<>> \/ exec_matches(binaries, desktop_files) # {} THEN <<>>
    ELSE LET sorted == sort_by_score(binaries)
         IN  [k \in 1..Len(binaries) |-> <<sorted[k], score(sorted[k])>>]

identify_main_binary(binaries, desktop_files) ==
    IF binaries = <<>> THEN ReturnNone
    ELSE IF exec_matches(binaries, desktop_files) # {}
         THEN desktop_match(binaries, desktop_files)
         ELSE top_scored(binaries)

\* directories of an extracted package: only the second is a bin directory
BinaryDirs ==
    { <<"/", "t">>,
      <<"/", "t", "/", "b", "i", "n">>,
      <<"/", "t", "/", "r", "o", "b", "i", "n">> }

\* basenames of the files find_binaries collects
BinaryNames ==
    { <<"a", "p", "p">>,
      <<"m", "a", "i", "n">>,
      <<"R", "u", "n">>,
      <<"r", "e", "m", "o", "v", "e", ".", "x">>,
      <<"b", "i", "n", "d", "e", "r">>,
      <<"r", "u", "n", "a", "p", "p", ".", "s", "h">>,
      <<"u", "n", "i", "n", "s", "t", "a", "l", "l", "-", "r", "e", "m", "o", "v", "e">> }

\* every name lies in the package's top directory, app also in its
\* subdirectories and main in its bin directory
Candidates ==
    {Slash(d, n) : d \in {<<"/", "t">>}, n \in BinaryNames}
    \cup {Slash(d, <<"a", "p", "p">>) : d \in BinaryDirs}
    \cup {Slash(<<"/", "t", "/", "b", "i", "n">>, <<"m", "a", "i", "n">>)}

\* the desktop files find_desktop_files collects: [Desktop Entry] sections
\* with and without an Exec key
DesktopFiles ==
    { [Name |-> "App"],
      [Name |-> "App", Exec |-> <<"m", "a", "i", "n", " ", "-", "-", "f", "l", "a", "g">>],
      [Name |-> "App", Exec |-> <<"/", "u", "s", "r", "/", "b", "i", "n", "/", "a", "p", "p">>],
      [Name |-> "App", Exec |-> <<"a", "p", "p", "\t", "-", "x">>] }

SeqsUpTo(S, n) == UNION {[1..k -> S] : k \in 0..n}

Injective(f) == \A i, j \in DOMAIN f : f[i] = f[j] => i = j

\* os.walk lists every file once
CandidateLists == {b \in SeqsUpTo(Candidates, MaxCandidates) : Injective(b)}

DesktopFileLists == SeqsUpTo(DesktopFiles, MaxDesktopFiles)

InitBinary ==
    /\ installations = <<>>
    /\ db_file = [st |-> "missing"]
    /\ markers = [d \in MarkerDirs |-> Absent]
    /\ files = {}
    /\ edits = 0
    /\ \E binaries \in CandidateLists, desktop_files \in DesktopFileLists :
           last = [op |-> "extracted", binaries |-> binaries,
                   desktop_files |-> desktop_files]
    /\ apps_list = <<>>
    /\ selected = 0
    /\ current_file = None
    /\ temp_analysis_dir = 0
    /\ tmp_dirs = EmptyDict
    /\ install_btn = FALSE
    /\ installer_thread = [st |-> "none"]
    /\ uninstall_thread = [st |-> "none"]
    /\ installs = 0
    /\ visible = TRUE

IdentifyMainBinary ==
    /\ last.op = "extracted"
    /\ last' = [op |-> "identify_main_binary", binaries |-> last.binaries,
                desktop_files |-> last.desktop_files,
                scored |-> scored_binaries(last.binaries, last.desktop_files),
                ret |-> identify_main_binary(last.binaries, last.desktop_files)]
    /\ UNCHANGED <<installations, db_file, markers, files, edits, gui_vars>>

NextBinary == IdentifyMainBinary

SpecBinary == InitBinary /\ [][NextBinary]_vars

---------------------------------------------------------------------------
(* InstallerThread.parse_desktop_file: a file is unreadable or a list of    *)
(* lines, each a string                                                      *)

\* str.strip()
RECURSIVE strip(_)
strip(s) ==
    IF s = <<>> THEN s
    ELSE IF IsSpace(Head(s)) THEN strip(Tail(s))
    ELSE IF IsSpace(s[Len(s)]) THEN strip(SubSeq(s, 1, Len(s) - 1))
    ELSE s

\* index of the first c in s, which holds one
IndexOf(s, c) ==
    CHOOSE i \in 1..Len(s) : s[i] = c /\ \A j \in 1..(i - 1) : s[j] # c

\* s.split(c): the pieces between the occurrences of c
RECURSIVE split(_, _)
split(s, c) ==
    IF ~Contains(s, <<c>>) THEN <<s>>
    ELSE <<SubSeq(s, 1, IndexOf(s, c) - 1)>>
         \o split(SubSeq(s, IndexOf(s, c) + 1, Len(s)), c)

\* line.split('=', 1) of a line that holds an '='
split_key(line) == SubSeq(line, 1, IndexOf(line, "=") - 1)
split_value(line) == SubSeq(line, IndexOf(line, "=") + 1, Len(line))

DesktopEntryHeader == <<"[", "D", "e", "s", "k", "t", "o", "p", " ", "E", "n", "t", "r", "y", "]">>

\* line.startswith('[') and line.endswith(']')
IsHeader(line) == line # <<>> /\ Head(line) = "[" /\ line[Len(line)] = "]"

\* result[key] = value
dict_set(d, k, v) == [x \in (DOMAIN d) \cup {k} |-> IF x = k THEN v ELSE d[x]]

\* the loop over the lines, with its in-section flag and the keys recorded
\* so far
RECURSIVE parse_lines(_, _, _)
parse_lines(lines, in_desktop_entry, result) ==
    IF lines = <<>> THEN result
    ELSE LET line == strip(Head(lines))
         IN  IF line = DesktopEntryHeader
             THEN parse_lines(Tail(lines), TRUE, result)
             ELSE IF IsHeader(line)
             THEN parse_lines(Tail(lines), FALSE, result)
             ELSE IF in_desktop_entry /\ Contains(line, <<"=">>)
             THEN parse_lines(Tail(lines), in_desktop_entry,
                              dict_set(result, split_key(line), split_value(line)))
             ELSE parse_lines(Tail(lines), in_desktop_entry, result)

\* the dict returned for a file that was read
desktop_info(result) ==
    [name |-> dict_get(result, <<"N", "a", "m", "e">>, <<"U", "n", "k", "n", "o", "w", "n">>),
     comment |-> dict_get(result, <<"C", "o", "m", "m", "e", "n", "t">>, <<>>),
     exec |-> dict_get(result, <<"E", "x", "e", "c">>, <<>>),
     icon |-> dict_get(result, <<"I", "c", "o", "n">>, <<>>),
     categories |-> split(dict_get(result, <<"C", "a", "t", "e", "g", "o", "r", "i", "e", "s">>, <<>>), ";"),
     version |-> dict_get(result, <<"V", "e", "r", "s", "i", "o", "n">>, <<"1", ".", "0">>)]

\* parse_desktop_file: {} when open or read raises
parse_desktop_file(file) ==
    IF ~file.readable THEN EmptyDict
    ELSE desktop_info(parse_lines(file.lines, FALSE, EmptyDict))

\* lines of desktop files: the two kinds of header, keys with and without
\* blanks around the line, and text that is neither
DesktopLines ==
    { DesktopEntryHeader,
      <<"[", "D", "e", "s", "k", "t", "o", "p", " ", "A", "c", "t", "i", "o", "n", " ", "n", "e", "w", "]">>,
      <<"E", "x", "e", "c", "=", "a", "p", "p">>,
      <<" ", " ", "E", "x", "e", "c", "=", "n", "e", "w", " ">>,
      <<"N", "a", "m", "e", "=", "A", "p", "p">>,
      <<"g", "a", "r", "b", "a", "g", "e">> }

\* the desktop files of a package: readable text, or a file open() fails on
DesktopTexts ==
    {[readable |-> TRUE, lines |-> lines] : lines \in SeqsUpTo(DesktopLines, MaxLines)}
    \cup {[readable |-> FALSE, lines |-> <<>>]}

InitDesktop ==
    /\ installations = <<>>
    /\ db_file = [st |-> "missing"]
    /\ markers = [d \in MarkerDirs |-> Absent]
    /\ files = {}
    /\ edits = 0
    /\ \E file \in DesktopTexts : last = [op |-> "desktop_file", file |-> file]
    /\ apps_list = <<>>
    /\ selected = 0
    /\ current_file = None
    /\ temp_analysis_dir = 0
    /\ tmp_dirs = EmptyDict
    /\ install_btn = FALSE
    /\ installer_thread = [st |-> "none"]
    /\ uninstall_thread = [st |-> "none"]
    /\ installs = 0
    /\ visible = TRUE

ParseDesktopFile ==
    /\ last.op = "desktop_file"
    /\ last' = [op |-> "parse_desktop_file", file |-> last.file,
                ret |-> parse_desktop_file(last.file)]
    /\ UNCHANGED <<installations, db_file, markers, files, edits, gui_vars>>

NextDesktop == ParseDesktopFile

SpecDesktop == InitDesktop /\ [][NextDesktop]_vars

---------------------------------------------------------------------------
(* InstallerThread.find_binaries: a file of the package is given by its     *)
(* name, its execute permission, whether it can be opened, the kind of its  *)
(* first four bytes, its size and the place of its first byte above 127     *)
(* (0 when it has none)                                                      *)

\* sizes and first high bytes that go together
FileContents ==
    { [size |-> 100, high_at |-> 50],
      [size |-> 101, high_at |-> 0],
      [size |-> 101, high_at |-> 101],
      [size |-> 2000, high_at |-> 1024],
      [size |-> 2000, high_at |-> 1025] }

FileNames == {<<"a", "p", "p">>, <<"r", "u", "n", ".", "s", "h">>}

PackageFile(name, x_ok, readable, magic, content) ==
    [name |-> name, x_ok |-> x_ok, readable |-> readable, magic |-> magic,
     size |-> content.size, high_at |-> content.high_at]

\* the files of a package: every kind of executable, readable file, and
\* scripts that lack the execute permission or cannot be opened
PackageFiles ==
    {PackageFile(n, TRUE, TRUE, m, c) :
        n \in FileNames, m \in {"#!", "ELF", "text"}, c \in FileContents}
    \cup {PackageFile(n, x, ~x, "#!", [size |-> 101, high_at |-> 101]) :
            n \in FileNames, x \in BOOLEAN}

\* any(b > 127 for b in f.read(1024))
sample_has_high_byte(file) == file.high_at \in 1..1024

likely_binary_any_size(file) ==
    \/ file.magic \in {"#!", "ELF"}
    \/ /\ ~Contains(file.name, <<".">>)
       /\ sample_has_high_byte(file)

\* the tests on a file that has been opened
likely_binary(file) ==
    \/ file.magic \in {"#!", "ELF"}
    \/ /\ ~Contains(file.name, <<".">>)
       /\ file.size > 100
       /\ sample_has_high_byte(file)

\* the body of the loop for one file: open() raising ends in except: pass
is_listed(file) == file.x_ok /\ file.readable /\ likely_binary(file)

\* find_binaries over the files in walk order
RECURSIVE find_binaries(_)
find_binaries(walk) ==
    IF walk = <<>> THEN <<>>
    ELSE (IF is_listed(Head(walk)) THEN <<Head(walk)>> ELSE <<>>)
         \o find_binaries(Tail(walk))

InitFind ==
    /\ installations = <<>>
    /\ db_file = [st |-> "missing"]
    /\ markers = [d \in MarkerDirs |-> Absent]
    /\ files = {}
    /\ edits = 0
    /\ \E walk \in SeqsUpTo(PackageFiles, MaxFiles) :
          last = [op |-> "walk", walk |-> walk]
    /\ apps_list = <<>>
    /\ selected = 0
    /\ current_file = None
    /\ temp_analysis_dir = 0
    /\ tmp_dirs = EmptyDict
    /\ install_btn = FALSE
    /\ installer_thread = [st |-> "none"]
    /\ uninstall_thread = [st |-> "none"]
    /\ installs = 0
    /\ visible = TRUE

FindBinaries ==
    /\ last.op = "walk"
    /\ last' = [op |-> "find_binaries", walk |-> last.walk,
                ret |-> find_binaries(last.walk)]
    /\ UNCHANGED <<installations, db_file, markers, files, edits, gui_vars>>

NextFind == FindBinaries

SpecFind == InitFind /\ [][NextFind]_vars

---------------------------------------------------------------------------
(* Properties of the registry *)

\* the records of a list that carry this app_id
WithId(insts, app_id) == {i \in 1..Len(insts) : IdOf(insts[i]) = app_id}

\* the previous step was the same operation on the same app_id
Again == last.prev = Key(last)

\* s is t with some elements left out, order kept
RECURSIVE IsSubseq(_, _)
IsSubseq(s, t) ==
    IF s = <<>> THEN TRUE
    ELSE IF t = <<>> THEN FALSE
    ELSE IF Head(s) = Head(t) THEN IsSubseq(Tail(s), Tail(t))
    ELSE IsSubseq(s, Tail(t))

\* a marker file in a scanned directory that the scan can read, carrying app_id
ScannableMarker(disk, app_id) ==
    \E d \in Scanned : Readable(disk[d]) /\ MarkerId(disk[d]) = app_id

\* C1: add_installation(r1) followed by add_installation(r2) with the same
\* app_id leaves exactly one record with that app_id, and every field
\* present in r2 has r2's value in that record.
C1_UpsertKeepsOneRecord ==
    (last.op = "add" /\ Again) =>
        /\ Cardinality(WithId(installations, last.app_id)) = 1
        /\ \A i \in WithId(installations, last.app_id) :
             \A k \in DOMAIN last.data :
                k \in DOMAIN installations[i] /\ installations[i][k] = last.data[k]

C1_Witness ==
    /\ last.op = "add" /\ Again
    /\ Len(installations) = 2
    /\ \E i \in 1..Len(installations) :
         /\ IdOf(installations[i]) = last.app_id
         /\ "discovered" \in DOMAIN installations[i]
         /\ installations[i].app_name = "B"

\* C2: starting from an empty registry, no two records of the registry ever
\* have the same app_id, whatever markers are on disk.
C2_AppIdUnique ==
    \A i, j \in 1..Len(installations) :
        IdOf(installations[i]) = IdOf(installations[j]) => i = j

C2_Witness ==
    /\ last.op = "scan"
    /\ Len(installations) = 3
    /\ \E d, e \in Scanned :
         /\ d # e /\ Readable(markers[d]) /\ Readable(markers[e])
         /\ MarkerId(markers[d]) = MarkerId(markers[e])

\* C3: a scan that directly follows a scan, with the disk unchanged in
\* between, leaves the registry as the first scan left it.
C3_SecondScanNoOp ==
    [][(last.op = "scan" /\ last'.op = "scan") =>
            (installations' = installations /\ db_file' = db_file)]_vars

C3_Witness ==
    /\ last.op = "scan" /\ Again
    /\ \E i \in 1..Len(installations) : "discovered" \in DOMAIN installations[i]
    /\ \E d \in Scanned : markers[d] = Corrupt

\* C4: a scan only appends: the records present before it are still there,
\* in the same positions and with every field unchanged.
C4_ScanOnlyAppends ==
    [][last'.op = "scan" =>
            /\ Len(installations') >= Len(installations)
            /\ SubSeq(installations', 1, Len(installations)) = installations]_vars

\* after a scan: a record added by the caller whose app_id is also carried
\* by a scanned marker with other app_name / app_version values
C4_Witness ==
    /\ last.op = "scan"
    /\ \E i \in 1..Len(installations), d \in Scanned :
         /\ "discovered" \notin DOMAIN installations[i]
         /\ Readable(markers[d])
         /\ MarkerId(markers[d]) = IdOf(installations[i])
         /\ dict_get(markers[d].data, "app_name", "") # installations[i].app_name

\* C5: cleanup_orphaned_markers deletes no marker whose app_id has a record
\* in the registry; every marker it deletes is readable and carries an
\* app_id without record; it changes no marker otherwise.
C5_CleanupSparesTracked ==
    [][last'.op = "cleanup" =>
            \A d \in MarkerDirs :
                markers'[d] # markers[d] =>
                    /\ markers'[d] = Absent
                    /\ markers[d].st = "json"
                    /\ \A i \in 1..Len(installations) :
                         IdOf(installations[i]) # MarkerId(markers[d])]_vars

\* after a cleanup that removed an orphan while a tracked marker was on disk
C5_Witness ==
    /\ last.op = "cleanup"
    /\ last.ret[2] >= 1
    /\ \E d \in MarkerDirs :
         /\ Readable(markers[d])
         /\ \E i \in 1..Len(installations) :
                IdOf(installations[i]) = MarkerId(markers[d])

\* exactly two marker files on disk, one orphaned and one tracked
OneOrphanOneTracked(insts, disk) ==
    \E d, e \in MarkerDirs :
        /\ d # e
        /\ \A f \in MarkerDirs : disk[f].st # "absent" <=> f \in {d, e}
        /\ Readable(disk[d]) /\ Readable(disk[e])
        /\ \E i \in 1..Len(insts) : IdOf(insts[i]) = MarkerId(disk[d])
        /\ \A i \in 1..Len(insts) : IdOf(insts[i]) # MarkerId(disk[e])

\* exactly the orphan of the two markers is gone
OnlyOrphanRemoved(insts, disk, disk2) ==
    \A f \in MarkerDirs :
        IF Readable(disk[f])
           /\ \A i \in 1..Len(insts) : IdOf(insts[i]) # MarkerId(disk[f])
        THEN disk2[f] = Absent
        ELSE disk2[f] = disk[f]

\* C6 as stated: with one orphaned and one tracked marker on disk and
\* deletion permitted, cleanup removes exactly the orphan and returns
\* (found = 2, removed = 1).
C6_ReturnsTwoOne ==
    [][(last'.op = "cleanup" /\ last'.failing = {}
            /\ OneOrphanOneTracked(installations, markers)) =>
            /\ OnlyOrphanRemoved(installations, markers, markers')
            /\ last'.ret = <<2, 1>>]_vars

\* C6 amended: in that situation cleanup removes exactly the orphan and
\* returns (found = 1, removed = 1): found counts the orphaned markers only.
C6_ReturnsOneOne ==
    [][(last'.op = "cleanup" /\ last'.failing = {}
            /\ OneOrphanOneTracked(installations, markers)) =>
            /\ OnlyOrphanRemoved(installations, markers, markers')
            /\ last'.ret = <<1, 1>>]_vars

\* after such a cleanup: one orphan found and removed, the tracked marker
\* is the only marker left
C6_Witness ==
    /\ last.op = "cleanup" /\ last.failing = {}
    /\ last.ret = <<1, 1>>
    /\ last.prev[1] # "cleanup"
    /\ Cardinality({d \in MarkerDirs : markers[d].st # "absent"}) = 1
    /\ \E d \in MarkerDirs :
         /\ Readable(markers[d])
         /\ \E i \in 1..Len(installations) :
                IdOf(installations[i]) = MarkerId(markers[d])

\* C7: remove_installation(app_id) never fails; without a record of that
\* app_id it leaves the list unchanged; with one, no record has the app_id
\* afterwards and the other records are kept, unchanged and in order; a
\* second call changes nothing.
C7_RemoveIdempotent ==
    [][last'.op = "remove" =>
            /\ WithId(installations', last'.app_id) = {}
            /\ WithId(installations, last'.app_id) = {}
                    => installations' = installations
            /\ IsSubseq(installations', installations)
            /\ Len(installations') =
                    Len(installations)
                    - Cardinality(WithId(installations, last'.app_id))
            /\ (last.op = "remove" /\ last.app_id = last'.app_id)
                    => installations' = installations
            /\ db_file' = save_installations(installations')]_vars

\* after the removal of a record that was there, another record being kept
C7_Witness ==
    /\ last.op = "remove"
    /\ last.prev = <<"add", last.app_id>>
    /\ Len(installations) >= 1

\* C24: after a scan every readable marker under the scanned directories
\* has a record with its app_id, every record the scan appended is tagged
\* discovered, and a marker that cannot be read or decoded keeps no other
\* marker from being processed.
C24_ScanTracksEveryReadableMarker ==
    [][last'.op = "scan" =>
            /\ \A d \in Scanned :
                  Readable(markers[d]) =>
                      WithId(installations', MarkerId(markers[d])) # {}
            /\ \A k \in (Len(installations) + 1)..Len(installations') :
                  dict_get(installations'[k], "discovered", FALSE) = TRUE]_vars

\* after a scan: an undecodable marker in one scanned directory, and in
\* another a readable one whose record the scan has made
C24_Witness ==
    /\ last.op = "scan"
    /\ \E d, e \in Scanned :
          /\ markers[d] = Corrupt
          /\ Readable(markers[e])
          /\ \E k \in WithId(installations, MarkerId(markers[e])) :
                /\ dict_get(installations[k], "discovered", FALSE)
                /\ installations[k].marker_file = e

---------------------------------------------------------------------------
(* Properties of the application *)

\* the step is UninstallThread.run finishing for the application app_id
UninstallRunOf(app_id) ==
    /\ uninstall_thread.st = "started"
    /\ uninstall_thread'.st = "emitted"
    /\ IdOf(uninstall_thread.installation_data) = app_id

\* the step is uninstallation_finished after a successful uninstall of the
\* application that is still the selected one
UninstallFinishedOf(app_id) ==
    /\ uninstall_thread.st = "emitted"
    /\ uninstall_thread'.st = "none"
    /\ uninstall_thread.success
    /\ IdOf(uninstall_thread.installation_data) = app_id
    /\ selected # 0
    /\ apps_list[selected] = app_id

\* C8: remove-from-tracking of a tracked application removes its record and
\* leaves the markers and the installed files as they are; when a readable
\* marker with its app_id lies in a scanned directory, the scan that comes
\* next adds a record with that app_id and discovered = TRUE.
C8_UntrackThenScanRetracks ==
    [][/\ last'.op = "remove_from_tracking" =>
            /\ WithId(installations', last'.app_id) = {}
            /\ markers' = markers
            /\ files' = files
       /\ (last.op = "remove_from_tracking" /\ last'.op = "scan"
                /\ ScannableMarker(markers, last.app_id)) =>
            /\ Cardinality(WithId(installations', last.app_id)) = 1
            /\ \A i \in WithId(installations', last.app_id) :
                    dict_get(installations'[i], "discovered", FALSE) = TRUE]_vars

\* after an installation, remove-from-tracking and a scan: the application
\* is tracked again by a discovered record, its files still on disk
C8_Witness ==
    /\ last.op = "scan"
    /\ last.untracked # None
    /\ \E i \in WithId(installations, last.untracked) :
         /\ dict_get(installations[i], "discovered", FALSE) = TRUE
         /\ installations[i].source_filename = "a.tar.gz"
    /\ <<".local", "bin", "app">> \in files

\* C9: a successful uninstall of a tracked application, install-created or
\* discovered, removes its record and leaves no marker with its app_id
\* that a scan would pick up again.
C9_UninstallLeavesNothingToScan ==
    [][\A app_id \in AppIds :
          UninstallFinishedOf(app_id) =>
            /\ WithId(installations', app_id) = {}
            /\ ~ScannableMarker(markers', app_id)]_vars

\* a marker of a tracked application that the step deletes or replaces by
\* the marker of another application
MarkerOfTrackedLost(d) ==
    /\ Readable(markers[d])
    /\ WithId(installations, MarkerId(markers[d])) # {}
    /\ ~(Readable(markers'[d]) /\ MarkerId(markers'[d]) = MarkerId(markers[d]))

\* C10: a successful install leaves a marker carrying the install's app_id,
\* and the marker of a tracked application is deleted by no step other than
\* the uninstall of that application.
C10_MarkerLifecycle ==
    [][/\ (installer_thread.st = "installing" /\ installer_thread'.st = "emitted"
                /\ installer_thread'.success) =>
            ScannableMarker(markers', app_id_of(installer_thread.tarball_path))
       /\ \A d \in MarkerDirs :
            MarkerOfTrackedLost(d) => UninstallRunOf(MarkerId(markers[d]))]_vars

---------------------------------------------------------------------------
(* Properties of identify_main_binary *)

Identified == last.op = "identify_main_binary"

NoDesktopFile == last.desktop_files = <<>>

\* the candidates a desktop file names: the first whitespace-separated token
\* of its Exec value has the candidate's basename
NamedBy(desktop_file, binaries) ==
    IF desktop_exec(desktop_file) = <<>> THEN {}
    ELSE {i \in DOMAIN binaries :
            basename(binaries[i]) = basename(split_first(desktop_exec(desktop_file)))}

NamedCandidates(binaries, desktop_files) ==
    UNION {NamedBy(desktop_files[k], binaries) : k \in DOMAIN desktop_files}

\* C11: when a desktop file of the package names a candidate by the first
\* whitespace-separated token of its Exec value, identify_main_binary
\* returns a candidate so named, whatever the scores.
C11_DesktopExecWins ==
    (Identified /\ NamedCandidates(last.binaries, last.desktop_files) # {}) =>
        /\ ~last.ret.none
        /\ \E i \in NamedCandidates(last.binaries, last.desktop_files) :
              last.ret.value = last.binaries[i]

\* the scoring loop gave the candidate the score n
ScoredAs(binary, n) ==
    \E k \in DOMAIN last.scored : last.scored[k] = <<binary, n>>

ScoreOf(binary) ==
    last.scored[CHOOSE k \in DOMAIN last.scored : last.scored[k][1] = binary][2]

HasNoExtension(binary) == ~Contains(basename(binary), <<".">>)

InBinDir(binary) == Contains(binary, <<"/", "b", "i", "n", "/">>)

\* C12: with no desktop file, a candidate whose basename is app, without an
\* extension, on a path containing /bin/ scores exactly 23.
C12_AppInBinScores23 ==
    (Identified /\ NoDesktopFile) =>
        \A i \in DOMAIN last.binaries :
            (/\ basename(last.binaries[i]) = <<"a", "p", "p">>
             /\ InBinDir(last.binaries[i])) => ScoredAs(last.binaries[i], 23)

C12_Witness ==
    /\ Identified /\ NoDesktopFile
    /\ \E i \in DOMAIN last.binaries :
          /\ basename(last.binaries[i]) = <<"a", "p", "p">>
          /\ InBinDir(last.binaries[i])
          /\ last.ret = Return(last.binaries[i])

\* C13: with exactly one candidate and no desktop file, that candidate is
\* returned, whatever its name, its path and its score.
C13_SingleCandidateReturned ==
    (Identified /\ NoDesktopFile /\ Len(last.binaries) = 1) =>
        last.ret = Return(last.binaries[1])

\* the single candidate scores below zero and is returned
C13_Witness ==
    /\ Identified /\ NoDesktopFile
    /\ Len(last.binaries) = 1
    /\ \E n \in -3..-1 : ScoredAs(last.binaries[1], n)
    /\ last.ret = Return(last.binaries[1])

\* the candidates whose basename contains "main"
MainCandidates ==
    {i \in DOMAIN last.binaries :
        Contains(basename(last.binaries[i]), <<"m", "a", "i", "n">>)}

\* candidate i is the only one named main, and none is an uninstaller
OnlyMain(i) ==
    /\ Identified /\ NoDesktopFile
    /\ MainCandidates = {i}
    /\ \A j \in DOMAIN last.binaries :
          ~Contains(basename(last.binaries[j]),
                    <<"u", "n", "i", "n", "s", "t", "a", "l", "l">>)

\* both candidates get the bonus for the path or neither does, and both get
\* the same bonus for the extension
SamePathAndExtension(b1, b2) ==
    /\ bin_bonus(b1) = bin_bonus(b2)
    /\ ext_bonus(basename(b1)) = ext_bonus(basename(b2))

HasMainName(binary) ==
    \E k \in DOMAIN main_names : Contains(lower(basename(binary)), main_names[k])

\* C14 as stated: with no desktop file, exactly one basename containing
\* "main" and none containing "uninstall", that candidate scores strictly
\* more than every other candidate with the same path and extension bonuses.
C14_MainBeatsAllOthers ==
    \A i \in DOMAIN last.binaries :
        OnlyMain(i) =>
            \A j \in DOMAIN last.binaries \ {i} :
                SamePathAndExtension(last.binaries[i], last.binaries[j]) =>
                    ScoreOf(last.binaries[i]) > ScoreOf(last.binaries[j])

\* C14: with no desktop file, exactly one basename containing "main" and
\* none containing "uninstall", that candidate scores strictly more than
\* every other candidate with the same path and extension bonuses whose
\* basename contains none of app, main, run, start, launch in any case.
C14_MainBeatsUnnamed ==
    \A i \in DOMAIN last.binaries :
        OnlyMain(i) =>
            \A j \in DOMAIN last.binaries \ {i} :
                (/\ SamePathAndExtension(last.binaries[i], last.binaries[j])
                 /\ ~HasMainName(last.binaries[j])) =>
                    ScoreOf(last.binaries[i]) > ScoreOf(last.binaries[j])

C14_Witness ==
    \E i \in DOMAIN last.binaries :
        /\ OnlyMain(i)
        /\ \E j \in DOMAIN last.binaries \ {i} :
              /\ SamePathAndExtension(last.binaries[i], last.binaries[j])
              /\ ~HasMainName(last.binaries[j])
              /\ ScoreOf(last.binaries[i]) = ScoreOf(last.binaries[j]) + 5

\* C15: identify_main_binary returns None whenever the candidate list is
\* empty, with or without desktop files, and a member of the list whenever
\* the list is not empty.
C15_NoneOrMember ==
    Identified =>
        IF last.binaries = <<>> THEN last.ret = ReturnNone
        ELSE /\ ~last.ret.none
             /\ \E i \in DOMAIN last.binaries : last.ret.value = last.binaries[i]

\* no candidate, and a desktop file that names an executable
C15_Witness ==
    /\ Identified
    /\ last.binaries = <<>>
    /\ \E k \in DOMAIN last.desktop_files :
          desktop_exec(last.desktop_files[k]) # <<>>
    /\ last.ret.none

\* the score of the candidate holds the +10 of the path test: it is 10 more
\* than its extension, name and uninstaller terms
ReceivedBinBonus(binary) ==
    ScoreOf(binary) =
        10 + ext_bonus(basename(binary)) + name_bonus(basename(binary))
           - uninstall_penalty(basename(binary))

\* C20: a scored candidate receives the +10 exactly when one of the
\* directories on its path is named bin; the letters "bin" inside another
\* directory name or inside the file name earn nothing.
C20_BinBonusIffBinDirectory ==
    Identified =>
        \A k \in DOMAIN last.scored :
            ReceivedBinBonus(last.scored[k][1]) <=> InBinDir(last.scored[k][1])

IsScript(binary) ==
    \E e \in {<<".", "s", "h">>, <<".", "p", "y">>, <<".", "p", "l">>} :
        EndsWith(basename(binary), e)

IsUninstaller(binary) ==
    \/ Contains(lower(basename(binary)),
                <<"u", "n", "i", "n", "s", "t", "a", "l", "l">>)
    \/ Contains(lower(basename(binary)), <<"r", "e", "m", "o", "v", "e">>)

\* how many of the preferred names the lowercase basename contains
MainNamesIn(binary) ==
    Cardinality({k \in DOMAIN main_names :
                    Contains(lower(basename(binary)), main_names[k])})

\* C21: the bonuses do not stack: a scored candidate gets +8 without an
\* extension and otherwise +3 only for .sh/.py/.pl, +5 once for any number
\* of preferred names in its basename, and -3 once for uninstall, remove or
\* both; its score lies between -3 and 23.
C21_BonusesDoNotStack ==
    Identified =>
        \A k \in DOMAIN last.scored :
            LET binary == last.scored[k][1]
                n == last.scored[k][2]
            IN  /\ n = (IF Contains(lower(binary), <<"b", "i", "n">>) THEN 10 ELSE 0)
                       + (IF HasNoExtension(binary) THEN 8
                          ELSE IF IsScript(binary) THEN 3 ELSE 0)
                       + (IF MainNamesIn(binary) > 0 THEN 5 ELSE 0)
                       - (IF IsUninstaller(binary) THEN 3 ELSE 0)
                /\ n \in -3..23

\* a script whose name holds two preferred names scored 3 + 5, next to a
\* file named after uninstall and remove scored 8 - 3
C21_Witness ==
    /\ Identified
    /\ \E k \in DOMAIN last.scored :
          /\ MainNamesIn(last.scored[k][1]) = 2
          /\ IsScript(last.scored[k][1])
          /\ last.scored[k][2] = 8
    /\ \E k \in DOMAIN last.scored :
          /\ Contains(basename(last.scored[k][1]),
                      <<"u", "n", "i", "n", "s", "t", "a", "l", "l">>)
          /\ Contains(basename(last.scored[k][1]), <<"r", "e", "m", "o", "v", "e">>)
          /\ last.scored[k][2] = 5

\* the scoring loop ran: no desktop file named a candidate
Scored == Identified /\ last.scored # <<>>

\* the candidates of maximal score, by their place in the list handed in
MaxScored ==
    {i \in DOMAIN last.binaries :
        \A j \in DOMAIN last.binaries :
            ScoreOf(last.binaries[j]) <= ScoreOf(last.binaries[i])}

\* C22: when no desktop file decides, identify_main_binary returns the
\* candidate of maximal score that comes first in the list it was given.
C22_FirstOfTheBest ==
    Scored =>
        \E i \in MaxScored :
            /\ \A j \in MaxScored : i <= j
            /\ last.ret = Return(last.binaries[i])

\* two candidates tie for the maximal score and the earlier one is returned
C22_Witness ==
    /\ Scored
    /\ Cardinality(MaxScored) >= 2
    /\ last.ret = Return(last.binaries[CHOOSE i \in MaxScored :
                                           \A j \in MaxScored : i <= j])

---------------------------------------------------------------------------
(* Properties of the installation *)

\* the installer thread writes its marker in this step
MarkerWritten ==
    /\ installer_thread.st = "installing"
    /\ installer_thread'.st = "emitted"
    /\ installer_thread'.success

\* the records the step appends to the registry from marker files
Discovered(k) ==
    /\ k \in (Len(installations) + 1)..Len(installations')
    /\ dict_get(installations'[k], "discovered", FALSE)

\* the marker file is one written by create_marker_file
WrittenByInstaller(m) ==
    Readable(m) /\ dict_get(m.data, "installed_by", None) = "Tarball Installer"

SameIdentity(d, e) ==
    /\ d.app_id = e.app_id
    /\ d.app_name = e.app_name
    /\ d.install_type = e.install_type

\* C16: the marker create_marker_file writes carries the app_id, the
\* application name and the install type of the installation, and the
\* record a scan makes of such a marker carries the same three values.
C16_MarkerRoundTrip ==
    [][/\ MarkerWritten =>
            \E d \in MarkerDirs :
                /\ WrittenByInstaller(markers'[d])
                /\ SameIdentity(markers'[d].data, installer_thread'.install_data)
                /\ markers'[d].data.install_type = installer_thread.install_type
       /\ \A k \in DOMAIN installations' :
            (/\ Discovered(k)
             /\ WrittenByInstaller(markers[installations'[k].marker_file])) =>
                SameIdentity(installations'[k],
                             markers[installations'[k].marker_file].data)]_vars

\* a scan has made a record of the marker of a system installation whose
\* finished signal is still to be handled
C16_Witness ==
    /\ last.op = "scan"
    /\ installer_thread.st = "emitted"
    /\ installer_thread.install_type = "system"
    /\ \E k \in DOMAIN installations :
          /\ dict_get(installations[k], "discovered", FALSE)
          /\ SameIdentity(installations[k], installer_thread.install_data)
          /\ installations[k].install_type = "system"

---------------------------------------------------------------------------
(* Properties of the registry file *)

\* the file holds a JSON array
HoldsArray(file) == file.st = "ok" /\ IsList(file.content)

\* C17: load_installations always yields a list, and the empty list for a
\* registry file that is missing or does not hold a JSON array of records.
C17_LoadYieldsList ==
    last.op = "startup" =>
        /\ IsList(last.loaded)
        /\ ~HoldsArray(last.file) => last.loaded = <<>>

\* C18: the registry file is saved after every mutation: after the
\* construction and after every add_installation, remove_installation and
\* scan_existing_installations, loading the file yields the record list in
\* memory.
C18_FileHoldsRegistry == load_installations(db_file) = installations

\* the construction found a file that is not JSON, and a scan has since run
\* on the empty registry and saved nothing
C18_Witness ==
    /\ last.op = "scan"
    /\ db_file.st = "corrupt"
    /\ installations = <<>>

\* the installer thread ends its run in this step, for the install type
InstallerEnds(install_type) ==
    /\ installer_thread.st = "installing"
    /\ installer_thread'.st = "emitted"
    /\ installer_thread.install_type = install_type

\* the step changes no marker file outside the directory
MarkersChangedWithin(dir) ==
    \A d \in MarkerDirs \ {dir} : markers'[d] = markers[d]

\* C19: an installation of type system succeeds where a user installation
\* of the package does, writes exactly the files the user installation
\* writes, below the home directory, and leaves its marker in the same
\* directory.
C19_SystemFallsBackToUser ==
    [][InstallerEnds("system") =>
         /\ installer_thread'.success = (installer_thread.temp_dir \in DOMAIN tmp_dirs)
         /\ installer_thread'.success =>
              LET content == tmp_dirs[installer_thread.temp_dir]
              IN  /\ files' = files \cup install_to_user(content)
                  /\ MarkersChangedWithin(permanent_install_dir(content))
                  /\ WrittenByInstaller(markers'[permanent_install_dir(content)])
         /\ ~installer_thread'.success => UNCHANGED <<files, markers>>]_vars

\* a system installation has succeeded and its files lie below ~/.local
\* and ~/Applications
C19_Witness ==
    /\ installer_thread.st = "emitted"
    /\ installer_thread.install_type = "system"
    /\ installer_thread.success
    /\ <<".local", "bin", "app">> \in files
    /\ <<"Applications", "app">> \in files

---------------------------------------------------------------------------
(* Properties of parse_desktop_file *)

Parsed == last.op = "parse_desktop_file"

\* line i is read with the flag set: a [Desktop Entry] header precedes it
\* with no other bracketed header in between
InDesktopEntry(lines, i) ==
    \E h \in 1..(i - 1) :
        /\ strip(lines[h]) = DesktopEntryHeader
        /\ \A m \in (h + 1)..(i - 1) : ~IsHeader(strip(lines[m]))

\* the Exec=value lines read with the flag set
ExecLines(lines) ==
    {i \in 1..Len(lines) :
        /\ ~IsHeader(strip(lines[i]))
        /\ Contains(strip(lines[i]), <<"=">>)
        /\ split_key(strip(lines[i])) = <<"E", "x", "e", "c">>
        /\ InDesktopEntry(lines, i)}

\* the value of the last of them, "" when there is none
ExecOf(lines) ==
    IF ExecLines(lines) = {} THEN <<>>
    ELSE split_value(strip(lines[CHOOSE i \in ExecLines(lines) :
                                    \A j \in ExecLines(lines) : j <= i]))

\* the text holds no [Desktop Entry] header at all
Malformed(file) ==
    /\ file.readable
    /\ \A i \in 1..Len(file.lines) : strip(file.lines[i]) # DesktopEntryHeader

\* C23: a key=value line counts exactly when it is read with the in-section
\* flag set, so the Exec result is the value of the last Exec line inside
\* [Desktop Entry] and no Exec line before the header or in another group
\* sets it; an unreadable or malformed file yields the empty result.
C23_SectionFlagAndEmptyResult ==
    Parsed =>
        IF ~last.file.readable \/ Malformed(last.file)
        THEN DOMAIN last.ret = {}
        ELSE last.ret.exec = ExecOf(last.file.lines)

\* the part of C23 about the section flag alone
SectionFlagDecides ==
    (Parsed /\ last.file.readable) => last.ret.exec = ExecOf(last.file.lines)

\* the part of C23 about files that cannot be read
UnreadableYieldsEmpty ==
    (Parsed /\ ~last.file.readable) => DOMAIN last.ret = {}

---------------------------------------------------------------------------
(* Properties of find_binaries *)

\* the file qualifies as a candidate: execute permission, and a shebang or
\* ELF magic, or no extension, more than 100 bytes and a byte of 128 or
\* more among the first 1024
Qualifies(file) ==
    /\ file.x_ok
    /\ \/ file.magic = "#!"
       \/ file.magic = "ELF"
       \/ /\ ~Contains(file.name, <<".">>)
          /\ file.size > 100
          /\ file.high_at >= 1 /\ file.high_at <= 1024

---------------------------------------------------------------------------
(* Properties of the install flow *)

\* installation_finished handles the finished signal in this step
FinishedHandled ==
    installer_thread.st = "emitted" /\ installer_thread'.st = "none"

\* C26: after a successful install the record of its app_id is not flagged
\* discovered, also when a scan had made a record of that app_id before,
\* and its install_time and installed_files are those of the new install.
C26_InstallClearsDiscovered ==
    [][(FinishedHandled /\ installer_thread.success) =>
         \A k \in WithId(installations', app_id_of(installer_thread.tarball_path)) :
            /\ ~dict_get(installations'[k], "discovered", FALSE)
            /\ installations'[k].install_time =
                   installer_thread.install_data.install_time
            /\ installations'[k].installed_files =
                   installer_thread.install_data.installed_files]_vars

\* the app_ids that have a record before the step and none after it
RecordsRemoved ==
    {app_id \in AppIds \cup {None} :
        WithId(installations, app_id) # {} /\ WithId(installations', app_id) = {}}

\* C27: when an uninstall finishes successfully, the record that leaves the
\* registry is the one of the application the thread has uninstalled, and
\* no record of another application does, whatever the user did with the
\* list while the thread ran.
C27_RemovedIsUninstalled ==
    [][(/\ uninstall_thread.st = "emitted"
        /\ uninstall_thread'.st = "none"
        /\ uninstall_thread.success) =>
         /\ WithId(installations', IdOf(uninstall_thread.installation_data)) = {}
         /\ RecordsRemoved \subseteq {IdOf(uninstall_thread.installation_data)}]_vars

\* the installer thread is at work on the extraction it was handed
InstallingFromExtraction ==
    /\ installer_thread.st \in {"started", "installing"}
    /\ installer_thread.extracted_dir \in DOMAIN tmp_dirs

\* C28: while the installer thread is at work on the extraction directory
\* it was handed, no step removes that directory or changes what it holds
C28_ExtractionKeptWhileInstalling ==
    [][InstallingFromExtraction =>
        /\ installer_thread.extracted_dir \in DOMAIN tmp_dirs'
        /\ tmp_dirs'[installer_thread.extracted_dir]
              = tmp_dirs[installer_thread.extracted_dir]]_vars

\* the step handles finished(False, ...)
FailureHandled ==
    /\ installer_thread.st = "emitted"
    /\ ~installer_thread.success
    /\ installer_thread'.st = "none"

\* the step cancels the running installation
Cancelled ==
    /\ installer_thread.st \in {"started", "installing"}
    /\ installer_thread'.st = "none"

\* the step handles finished(True, ...)
SuccessHandled ==
    /\ installer_thread.st = "emitted"
    /\ installer_thread.success
    /\ installer_thread'.st = "none"

\* C29: of the steps of the install flow only the handling of
\* finished(True, ...) changes the record list or the registry file; the
\* handling of finished(False, ...) and a cancellation leave both as they
\* are, so that they are what they were when the installation started
C29_RegistryChangesOnlyOnSuccess ==
    [][/\ (FailureHandled \/ Cancelled) => UNCHANGED <<installations, db_file>>
       /\ (installations' # installations \/ db_file' # db_file) => SuccessHandled]_vars

\* a failed installation has been handled with a record in the registry
C29_Witness ==
    /\ last.op = "installation_finished"
    /\ ~last.success
    /\ installations # <<>>
    /\ db_file = save_installations(installations)

\* the step starts an InstallerThread
ThreadStarted ==
    /\ installer_thread.st = "none"
    /\ installer_thread'.st = "started"

====
